---- MODULE Spec2Model ----
(***************************************************************************)
(* Calendar viewer page of app.py: the calendar directory, the merge of    *)
(* the uploaded .ics feeds into merged_output.ics, the extraction of the   *)
(* events of the merged file and the weekly view built from them; the      *)
(* colour of a source label; the ledger of modules and weekly hour         *)
(* entries of the module and claim pages.                                  *)
(*                                                                         *)
(* File names are sequences of tokens (<<"a", ".ics">> is "a.ics"), so     *)
(* that endswith('.ics') and replace('.ics', '') are computed, not         *)
(* assumed.  Dates are day numbers (day 0 is a Monday), times of day are   *)
(* whole hours, zone offsets are hours east of UTC.                        *)
(***************************************************************************)
EXTENDS Integers, Sequences, FiniteSets, TLC

VARIABLES
    files,                 \* calendar_data/: file name -> bytes
    merge_call,            \* the merge_all_ics_files call of the last handler:
                           \* its file list, its return value, whether it left
                           \* the directory untouched, whether it merged again
                           \* the files of the merge before (remerge) and
                           \* whether the merged events stayed the same
    view_status,           \* what the weekly view section rendered
    events,                \* events = extract_events(cal) of the last render
    day_buckets,           \* the seven sorted day_events lists of the last render
    calendar_week_start,   \* st.session_state.calendar_week_start
    today,                 \* datetime.today().date() of the session
    tzlocal_ok,            \* whether tzlocal / pytz resolve the local zone
    output_write,          \* the open(OUTPUT_FILE, 'wb') of a running merge
    reader_seen,           \* what the last read of OUTPUT_FILE by a second
                           \* session returned, with the aggregates before
                           \* and after the merge that was running, if any
    source_colors,         \* source label -> colours get_source_color gave
                           \* the cards of the source, one per call
    modules,               \* st.session_state.modules
    entries,               \* st.session_state.entries
    next_id,               \* st.session_state.next_id
    selected_week,         \* st.session_state.selected_week
    ledger_call            \* the ledger operation of the last handler

vars == <<files, merge_call, view_status, events, day_buckets,
          calendar_week_start, today, tzlocal_ok, output_write, reader_seen,
          source_colors, modules, entries, next_id, selected_week,
          ledger_call>>

calendar_vars == <<files, merge_call, view_status, events, day_buckets,
                   calendar_week_start, output_write, reader_seen>>
ledger_vars == <<modules, entries, next_id, selected_week, ledger_call>>

----------------------------------------------------------------------------
(* Bounds of the model *)

\* most VEVENT blocks in one uploaded feed
MaxEvents == 2
\* most weeks the cursor is moved away from the initial week, either way
MaxNav == 1
\* most VEVENT blocks in the merged file the weekly view starts from
MaxViewEvents == 2
\* the last week the claim page is moved to with "Next"
MaxWeek == 2
\* most modules that are ever added, the last value next_id hands out
MaxModules == 2
\* most entries in st.session_state.entries
MaxEntries == 2
\* most cards of one source label whose colour is recorded
MaxCalls == 2

----------------------------------------------------------------------------
(* File names *)

ICS == ".ics"
OUTPUT_FILE == <<"merged_output", ICS>>

\* names a user uploads through the file_uploader (type=['ics'])
UploadNames == { <<"a", ICS>>, <<"b", ICS>>, OUTPUT_FILE }

\* f.endswith('.ics')
endswith_ics(f) == Len(f) > 0 /\ f[Len(f)] = ICS

\* filename.replace('.ics', '')
IsNotIcs(t) == t # ICS
source_name_of(filename) == SelectSeq(filename, IsNotIcs)

exists(fs, name) == name \in DOMAIN fs

\* open(path, 'wb').write(bytes)
write_file(fs, name, bytes) ==
    [x \in (DOMAIN fs) \cup {name} |-> IF x = name THEN bytes ELSE fs[x]]

\* os.remove(path)
remove_file(fs, name) == [x \in (DOMAIN fs) \ {name} |-> fs[x]]

----------------------------------------------------------------------------
(* Date and time values *)

\* a DTSTART / DTEND value: t is "date" (date only), "naive" (datetime
\* without zone) or "aware" (datetime with zone, off hours east of UTC)
DtDate(d)          == [t |-> "date",  day |-> d, hour |-> 0, off |-> 0]
DtNaive(d, h)      == [t |-> "naive", day |-> d, hour |-> h, off |-> 0]
DtAware(d, h, o)   == [t |-> "aware", day |-> d, hour |-> h, off |-> o]

\* isinstance(x, datetime)
is_datetime(x) == x.t # "date"

\* x.date() and x.time() of a datetime, the date itself of a date
date_of(x) == x.day
time_of(x) == x.hour

\* the local zone: standard offset 0, daylight-saving offset 1 from
\* SpringDay 01:00 standard time to FallDay 02:00 daylight time
StdOff == 0
DstOff == 1
SpringDay == 6
FallDay == 20

\* local wall-clock hours that do not exist / exist twice
NonExistent(d) == d.day = SpringDay /\ d.hour = 1
Ambiguous(d)   == d.day = FallDay /\ d.hour = 1

InDst(day, hour) ==
    /\ (day > SpringDay \/ (day = SpringDay /\ hour >= 2))
    /\ (day < FallDay \/ (day = FallDay /\ hour < 1))

ZoneOffset(day, hour) == IF InDst(day, hour) THEN DstOff ELSE StdOff

\* datetime.now().astimezone().tzinfo: the fixed offset in force now
local_tz(now) == ZoneOffset(now, 12)

\* x.astimezone(tz): the same instant on the wall clock of offset tz
astimezone(x, tz) ==
    LET w == x.day * 24 + x.hour - x.off + tz
    IN  DtAware(w \div 24, w % 24, tz)

\* x.replace(tzinfo=tz): the same wall clock, zone attached
replace_tzinfo(x, tz) == DtAware(x.day, x.hour, tz)

\* pytz_tz.localize(x, is_dst=None): raises on a wall-clock time that is
\* ambiguous or does not exist
localize_raises(x) == NonExistent(x) \/ Ambiguous(x)
localize(x) == DtAware(x.day, x.hour, ZoneOffset(x.day, x.hour))

----------------------------------------------------------------------------
(* Calendars: bytes on disk and parsed documents *)

\* A VEVENT, on disk and parsed: for each property the values of its
\* content lines in order (no line: the key is absent; several lines: the
\* parsed value is a list).
Component(dtstart, dtend, summary, xsource) ==
    [dtstart |-> dtstart, dtend |-> dtend, summary |-> summary,
     xsource |-> xsource]

\* Calendar(): an empty calendar document
EmptyCalendar == [props |-> <<>>, events |-> <<>>]

\* Calendar.from_ical(bytes): raises on bytes that are not well-formed,
\* else the top-level properties and the VEVENT components in file order
from_ical(bytes) ==
    [raised |-> bytes.junk,
     cal    |-> [props |-> bytes.head, events |-> bytes.vevents]]

\* cal.to_ical(): the bytes of a calendar document
to_ical(cal) == [junk |-> FALSE, head |-> cal.props, vevents |-> cal.events]

\* component.add('X-SOURCE', source_name): a property that is already
\* present keeps its values and gets the new one appended
component_add_xsource(component, source_name) ==
    [component EXCEPT !.xsource = Append(@, source_name)]

----------------------------------------------------------------------------
(* get_all_ics_files and merge_all_ics_files *)

\* the filter without the exclusion of the merged output
IsSourceFile_any(f) == endswith_ics(f)

IsSourceFile(f) == endswith_ics(f) /\ f # <<"merged_output", ICS>>

\* listing is os.listdir(CALENDAR_DIR), the names in the order the
\* operating system returns them
get_all_ics_files(listing) == SelectSeq(listing, IsSourceFile)

\* tag_events with the events that lack DTSTART or DTEND left out
tag_events_complete(cal, source_name) ==
    LET Complete(c) == c.dtstart # <<>> /\ c.dtend # <<>>
        kept == SelectSeq(cal.events, Complete)
    IN  [k \in 1..Len(kept) |-> component_add_xsource(kept[k], source_name)]

\* the events of one parsed source, each tagged, in the order of cal.walk()
tag_events(cal, source_name) ==
    [k \in 1..Len(cal.events) |->
        component_add_xsource(cal.events[k], source_name)]

\* merge_step with the events of a feed added before the parse of the feed
\* is known to have failed
merge_step_partial(fs, filename, acc) ==
    LET source_name == source_name_of(filename)
        parsed      == from_ical(fs[filename])
        added       == [acc EXCEPT
                          !.events = @ \o tag_events(parsed.cal, source_name)]
    IN  IF parsed.raised
        THEN [added EXCEPT !.warned = Append(@, filename)]
        ELSE [added EXCEPT
                !.props  = IF acc.first_file THEN @ \o parsed.cal.props ELSE @,
                !.first_file = FALSE]

\* merge_step with an event left out when the merged calendar already holds
\* an event with the same start, end and summary
merge_step_dedup(fs, filename, acc) ==
    LET source_name == source_name_of(filename)
        parsed      == from_ical(fs[filename])
        IsNew(c) == \A k \in DOMAIN acc.events :
                        \/ acc.events[k].dtstart # c.dtstart
                        \/ acc.events[k].dtend # c.dtend
                        \/ acc.events[k].summary # c.summary
    IN  IF parsed.raised
        THEN [acc EXCEPT !.warned = Append(@, filename)]
        ELSE [acc EXCEPT
                !.props  = IF acc.first_file THEN @ \o parsed.cal.props ELSE @,
                !.first_file = FALSE,
                !.events = @ \o SelectSeq(tag_events(parsed.cal, source_name),
                                          IsNew)]

\* merge_step with the top-level properties of every parsed feed copied
merge_step_allprops(fs, filename, acc) ==
    LET source_name == source_name_of(filename)
        parsed      == from_ical(fs[filename])
    IN  IF parsed.raised
        THEN [acc EXCEPT !.warned = Append(@, filename)]
        ELSE [acc EXCEPT
                !.props  = @ \o parsed.cal.props,
                !.first_file = FALSE,
                !.events = @ \o tag_events(parsed.cal, source_name)]

\* one pass of the loop over ics_files (lines 128-152); acc is merged_cal,
\* the first_file flag and the file names st.warning reported
merge_step(fs, filename, acc) ==
    LET source_name == source_name_of(filename)
        parsed      == from_ical(fs[filename])
    IN  IF parsed.raised
        THEN [acc EXCEPT !.warned = Append(@, filename)]
        ELSE [acc EXCEPT
                !.props  = IF acc.first_file THEN @ \o parsed.cal.props ELSE @,
                !.first_file = FALSE,
                !.events = @ \o tag_events(parsed.cal, source_name)]

\* for filename in ics_files
RECURSIVE merge_loop(_, _, _, _)
merge_loop(fs, ics_files, i, acc) ==
    IF i > Len(ics_files) THEN acc
    ELSE merge_loop(fs, ics_files, i + 1, merge_step(fs, ics_files[i], acc))

MsgNoFiles == "No .ics files found"
MsgMerged  == "Successfully merged"

\* merge_all_ics_files without the early return on an empty file list
merge_all_ics_files_unchecked(fs, listing) ==
    LET ics_files == get_all_ics_files(listing)
        acc == merge_loop(fs, ics_files, 1,
                  [props |-> <<>>, events |-> <<>>,
                   first_file |-> TRUE, warned |-> <<>>])
        merged_cal == [props |-> acc.props, events |-> acc.events]
        after == write_file(fs, OUTPUT_FILE, to_ical(merged_cal))
    IN  [files |-> after, called |-> TRUE, ics_files |-> ics_files,
         cal |-> merged_cal, success |-> TRUE,
         message |-> MsgMerged, count |-> Len(ics_files),
         warned |-> acc.warned, untouched |-> (after = fs)]

\* merge_all_ics_files(): the directory afterwards and the returned
\* (merged_cal, success, message); the message carries len(ics_files)
merge_all_ics_files(fs, listing) ==
    LET ics_files == get_all_ics_files(listing)
    IN  IF Len(ics_files) = 0
        THEN [files |-> fs, called |-> TRUE, ics_files |-> ics_files,
              cal |-> EmptyCalendar, success |-> FALSE,
              message |-> MsgNoFiles, count |-> 0, warned |-> <<>>,
              untouched |-> TRUE]
        ELSE
            LET acc == merge_loop(fs, ics_files, 1,
                          [props |-> <<>>, events |-> <<>>,
                           first_file |-> TRUE, warned |-> <<>>])
                merged_cal == [props |-> acc.props, events |-> acc.events]
                after == write_file(fs, OUTPUT_FILE, to_ical(merged_cal))
            IN  [files |-> after, called |-> TRUE, ics_files |-> ics_files,
                 cal |-> merged_cal, success |-> TRUE,
                 message |-> MsgMerged, count |-> Len(ics_files),
                 warned |-> acc.warned, untouched |-> (after = fs)]

\* a handler that does not call merge_all_ics_files
no_merge(fs) ==
    [files |-> fs, called |-> FALSE, ics_files |-> <<>>,
     cal |-> EmptyCalendar, success |-> FALSE, message |-> "", count |-> 0,
     warned |-> <<>>, untouched |-> TRUE]

----------------------------------------------------------------------------
(* extract_events *)

UNKNOWN == <<"unknown">>

\* str(component.get('X-SOURCE', 'unknown')): the default for an absent
\* key, the label for one value, the text of the whole list for several
source_str(xsource) == IF xsource = <<>> THEN <<UNKNOWN>> ELSE xsource

\* str(component.get('summary', 'No Title'))
summary_str(summary) == IF summary = <<>> THEN "No Title" ELSE summary[1]

\* not (not dtstart or not dtend)
admitted(component) == component.dtstart # <<>> /\ component.dtend # <<>>

\* the zone handling of a datetime value (lines 193-199 and 202-208)
normalize(x, pytz_tz, tz) ==
    IF x.t = "naive"
    THEN IF pytz_tz THEN astimezone(localize(x), tz)
                    ELSE replace_tzinfo(x, tz)
    ELSE astimezone(x, tz)

normalize_raises(x, pytz_tz) ==
    x.t = "naive" /\ pytz_tz /\ localize_raises(x)

extract_one(component, pytz_tz, tz) ==
    LET start == component.dtstart[1]
        end   == component.dtend[1]
    IN  [start     |-> IF is_datetime(start)
                       THEN normalize(start, pytz_tz, tz) ELSE start,
         end       |-> IF is_datetime(end)
                       THEN normalize(end, pytz_tz, tz) ELSE end,
         summary   |-> summary_str(component.summary),
         is_allday |-> ~is_datetime(start),
         source    |-> source_str(component.xsource)]

extract_one_raises(component, pytz_tz) ==
    LET start == component.dtstart[1]
        end   == component.dtend[1]
    IN  \/ is_datetime(start) /\ normalize_raises(start, pytz_tz)
        \/ is_datetime(end) /\ normalize_raises(end, pytz_tz)

\* extract_events(calendar): the list of events, or an exception
extract_events(calendar, pytz_tz, tz) ==
    LET kept == SelectSeq(calendar.events, admitted)
    IN  [raised |-> \E k \in 1..Len(kept) :
                        extract_one_raises(kept[k], pytz_tz),
         events |-> [k \in 1..Len(kept) |->
                        extract_one(kept[k], pytz_tz, tz)]]

----------------------------------------------------------------------------
(* get_week_monday and the weekly view *)

\* any_date.weekday(): Monday is 0
weekday(d) == d % 7

\* get_week_monday with isoweekday(), where Monday is 1
get_week_monday_iso(any_date) == any_date - (weekday(any_date) + 1)

get_week_monday(any_date) == any_date - weekday(any_date)

\* key_less with the key (is_allday, start time or midnight)
key_less_allday_last(a, b) ==
    LET a1 == IF a.is_allday THEN 1 ELSE 0
        b1 == IF b.is_allday THEN 1 ELSE 0
        a2 == IF is_datetime(a.start) THEN time_of(a.start) ELSE 0
        b2 == IF is_datetime(b.start) THEN time_of(b.start) ELSE 0
    IN  a1 < b1 \/ (a1 = b1 /\ a2 < b2)

\* the sort key (not is_allday, start time or midnight), compared as
\* Python compares tuples
key_less(a, b) ==
    LET a1 == IF a.is_allday THEN 0 ELSE 1
        b1 == IF b.is_allday THEN 0 ELSE 1
        a2 == IF is_datetime(a.start) THEN time_of(a.start) ELSE 0
        b2 == IF is_datetime(b.start) THEN time_of(b.start) ELSE 0
    IN  a1 < b1 \/ (a1 = b1 /\ a2 < b2)

\* list.sort(key=...): stable, equal keys keep their order
RECURSIVE sort_events(_)
sort_events(s) ==
    IF s = <<>> THEN <<>>
    ELSE
        LET rest == sort_events(SubSeq(s, 1, Len(s) - 1))
            x    == s[Len(s)]
            n    == Cardinality({i \in 1..Len(rest) : ~key_less(x, rest[i])})
        IN  SubSeq(rest, 1, n) \o <<x>> \o SubSeq(rest, n + 1, Len(rest))

\* event_date of an event (line 851)
event_date(e) == date_of(e.start)

\* day_events with current_day never advanced
day_events_stuck(evs, week_start, i) ==
    LET current_day == week_start
        OnDay(e) == event_date(e) = current_day
    IN  sort_events(SelectSeq(evs, OnDay))

\* day_events of offset day i, selected and sorted (lines 848-859, 886)
day_events(evs, week_start, i) ==
    LET current_day == week_start + i
        OnDay(e) == event_date(e) = current_day
    IN  sort_events(SelectSeq(evs, OnDay))

NoBuckets == [i \in 0..6 |-> <<>>]

\* the weekly view section (lines 804-917)
load_view(fs, week_start, pytz_tz, tz) ==
    IF ~exists(fs, OUTPUT_FILE)
    THEN [status |-> "none", events |-> <<>>, buckets |-> NoBuckets]
    ELSE
        LET parsed == from_ical(fs[OUTPUT_FILE])
            ex     == extract_events(parsed.cal, pytz_tz, tz)
        IN  IF parsed.raised \/ ex.raised
            THEN [status |-> "error", events |-> <<>>, buckets |-> NoBuckets]
            ELSE IF ex.events = <<>>
            THEN [status |-> "empty", events |-> <<>>, buckets |-> NoBuckets]
            ELSE [status |-> "ok", events |-> ex.events,
                  buckets |-> [i \in 0..6 |->
                                  day_events(ex.events, week_start, i)]]

----------------------------------------------------------------------------
(* Inputs *)

\* all sequences over S of length at most n
SeqsUpTo(S, n) == UNION {[1..k -> S] : k \in 0..n}

\* all orders of the elements of a set
Orders(S) ==
    {s \in [1..Cardinality(S) -> S] : \A x \in S : \E i \in DOMAIN s : s[i] = x}

\* the orders in which os.listdir can return the names of the directory;
\* merged_output.ics is filtered out of every listing, so it is listed
\* first and only the order of the other names varies
Listings(fs) ==
    {(IF exists(fs, OUTPUT_FILE) THEN <<OUTPUT_FILE>> ELSE <<>>) \o p :
        p \in Orders((DOMAIN fs) \ {OUTPUT_FILE})}

\* VEVENT blocks of uploaded feeds: a complete event and one without DTEND
EvPlain   == Component(<<DtDate(7)>>, <<DtDate(8)>>, <<"x">>, <<>>)
EvNoEnd   == Component(<<DtDate(7)>>, <<>>, <<"x">>, <<>>)
EventPool == {EvPlain, EvNoEnd}

Feed(junk, head, vevents) ==
    [junk |-> junk, head |-> head, vevents |-> vevents]

\* the bytes a user can upload; junk marks bytes that are not well-formed
FeedPool ==
    {Feed(j, <<"p1">>, v) : j \in BOOLEAN, v \in SeqsUpTo(EventPool, MaxEvents)}

TodayPool == {8}

\* feeds that differ in their top-level properties, uploaded under names
\* of which one holds the text ".ics" twice
HeadPool == {<<"p1">>, <<"p2">>}
HeadFeedPool ==
    {Feed(j, h, <<EvPlain>>) : j \in BOOLEAN, h \in HeadPool}
HeadNames == { <<"a", ICS>>, <<"a", ICS, ICS>>, <<"b", ICS>> }

\* VEVENT blocks of the feeds of the weekly view: all-day and timed
\* events, with and without zone, some already tagged by an earlier merge,
\* on both sides of the daylight-saving changes
WORK == <<"work">>
VwAllDay  == Component(<<DtDate(8)>>, <<DtDate(9)>>, <<"d">>, <<>>)
VwNine    == Component(<<DtNaive(8, 9)>>, <<DtNaive(8, 10)>>, <<"n">>, <<WORK>>)
VwEight   == Component(<<DtNaive(8, 8)>>, <<DtNaive(8, 9)>>, <<>>, <<>>)
VwZoned   == Component(<<DtAware(8, 22, -5)>>, <<DtAware(8, 23, -5)>>,
                       <<"z">>, <<WORK>>)
VwLate    == Component(<<DtNaive(5, 23)>>, <<DtDate(6)>>, <<"l">>, <<>>)
VwGap     == Component(<<DtNaive(SpringDay, 1)>>, <<DtNaive(SpringDay, 3)>>,
                       <<"g">>, <<>>)
VwFold    == Component(<<DtNaive(FallDay, 0)>>, <<DtNaive(FallDay, 1)>>,
                       <<"f">>, <<>>)
VwNext    == Component(<<DtNaive(15, 9)>>, <<DtNaive(15, 10)>>, <<"w">>, <<WORK>>)
VwNoEnd   == Component(<<DtNaive(8, 7)>>, <<>>, <<"e">>, <<>>)
VwNoStart == Component(<<>>, <<DtDate(9)>>, <<"s">>, <<WORK>>)
ViewEventPool ==
    {VwAllDay, VwNine, VwEight, VwZoned, VwLate, VwGap, VwFold, VwNext,
     VwNoEnd, VwNoStart}

ViewFeedPool ==
    {Feed(FALSE, <<"p1">>, v) : v \in SeqsUpTo(ViewEventPool, MaxViewEvents)}

TodayPoolView == 3..9

----------------------------------------------------------------------------
(* The calendar page *)

log_of(r) ==
    [called |-> r.called, ics_files |-> r.ics_files, cal |-> r.cal,
     success |-> r.success, message |-> r.message, count |-> r.count,
     warned |-> r.warned, untouched |-> r.untouched,
     remerge |-> FALSE, same_events |-> FALSE]

\* the VEVENT components of the merged output file, <<>> when there is none
output_events(fs) ==
    IF exists(fs, OUTPUT_FILE) THEN from_ical(fs[OUTPUT_FILE]).cal.events
    ELSE <<>>

\* the files of the directory other than the merged output
inputs_of(fs) == [x \in (DOMAIN fs) \ {OUTPUT_FILE} |-> fs[x]]

Count(s, e) == Cardinality({i \in DOMAIN s : s[i] = e})

\* the same elements the same number of times
SameBag(s, t) ==
    /\ Len(s) = Len(t)
    /\ \A i \in DOMAIN s : Count(s, s[i]) = Count(t, s[i])

\* st.rerun(): the script runs again from the top; lines 772-778 merge
\* when there are source files and no merged output
rerun(r, listing) ==
    IF Len(get_all_ics_files(listing)) > 0 /\ ~exists(r.files, OUTPUT_FILE)
    THEN merge_all_ics_files(r.files, listing)
    ELSE r

\* the merged output as a reader finds it: whether os.path.exists and
\* the bytes of the file
Absent == [present |-> FALSE, bytes |-> Feed(TRUE, <<>>, <<>>)]
stat(fs) ==
    IF exists(fs, OUTPUT_FILE)
    THEN [present |-> TRUE, bytes |-> fs[OUTPUT_FILE]]
    ELSE Absent

\* no merge is writing the merged output
Closed == [open |-> FALSE, listing |-> <<>>, written |-> 0, before |-> Absent]

\* no second session has read the merged output
NotRead == [read |-> FALSE]

\* no ledger operation
NoCall == [op |-> "none", week |-> 0, module_id |-> 0, hours |-> 0]

\* datetime.now().isocalendar()[1], day 0 being the Monday of week 1
get_week_number(now) == now \div 7 + 1

\* the end of a handler: the page is rendered from the directory
Finish(r, week_start) ==
    LET v == load_view(r.files, week_start, tzlocal_ok, local_tz(today))
    IN  /\ files' = r.files
        /\ merge_call' = [log_of(r) EXCEPT
               !.remerge = /\ r.called
                           /\ merge_call.called /\ merge_call.success
                           /\ inputs_of(r.files) = inputs_of(files),
               !.same_events = SameBag(output_events(files),
                                       output_events(r.files))]
        /\ view_status' = v.status
        /\ events' = v.events
        /\ day_buckets' = v.buckets
        /\ calendar_week_start' = week_start
        /\ output_write' = Closed
        /\ UNCHANGED <<today, tzlocal_ok, reader_seen, source_colors>>
        /\ UNCHANGED ledger_vars

\* the session starts on an empty calendar directory (lines 28-31) with
\* the cursor on the Monday of the current week (lines 233-234)
InitOver(days) ==
    /\ files = <<>>
    /\ merge_call = log_of(no_merge(files))
    /\ view_status = "none"
    /\ events = <<>>
    /\ day_buckets = NoBuckets
    /\ today \in days
    /\ tzlocal_ok \in BOOLEAN
    /\ calendar_week_start = get_week_monday(today)
    /\ output_write = Closed
    /\ reader_seen = NotRead
    /\ source_colors = <<>>
    /\ modules = <<>>
    /\ entries = <<>>
    /\ next_id = 1
    /\ selected_week = get_week_number(today)
    /\ ledger_call = NoCall

Init == InitOver(TodayPool)

\* lines 752-761: the uploaded file is written, the calendars are merged
Upload(name, bytes) ==
    LET written == write_file(files, name, bytes)
    IN  \E listing \in Listings(written) :
            Finish(rerun(merge_all_ics_files(written, listing), listing),
                   calendar_week_start)

\* lines 765-769: the "Refresh & Merge" button
RefreshMerge ==
    \E listing \in Listings(files) :
        LET r == IF Len(get_all_ics_files(listing)) > 0
                 THEN merge_all_ics_files(files, listing)
                 ELSE no_merge(files)
        IN  Finish(rerun(r, listing), calendar_week_start)

\* lines 793-797: the delete button of a listed source file
DeleteFile(filename) ==
    /\ filename \in DOMAIN files
    /\ IsSourceFile(filename)
    /\ LET removed == remove_file(files, filename)
           cleared == IF exists(removed, OUTPUT_FILE)
                      THEN remove_file(removed, OUTPUT_FILE) ELSE removed
       IN  \E listing \in Listings(cleared) :
               Finish(rerun(no_merge(cleared), listing), calendar_week_start)

WeekInRange(w) ==
    /\ w >= get_week_monday(today) - 7 * MaxNav
    /\ w <= get_week_monday(today) + 7 * MaxNav

\* lines 820-823: "Previous Week", shown when the view has events
PrevWeek ==
    /\ view_status = "ok"
    /\ WeekInRange(calendar_week_start - 7)
    /\ \E listing \in Listings(files) :
           Finish(rerun(no_merge(files), listing), calendar_week_start - 7)

\* lines 829-832: "Next Week"
NextWeek ==
    /\ view_status = "ok"
    /\ WeekInRange(calendar_week_start + 7)
    /\ \E listing \in Listings(files) :
           Finish(rerun(no_merge(files), listing), calendar_week_start + 7)

Next ==
    \/ \E name \in UploadNames, bytes \in FeedPool : Upload(name, bytes)
    \/ RefreshMerge
    \/ \E filename \in UploadNames : DeleteFile(filename)

Spec == Init /\ [][Next]_vars

\* The weekly view: one feed is uploaded into the empty directory and the
\* weeks are browsed
InitView == InitOver(TodayPoolView)

UploadView(bytes) == files = <<>> /\ Upload(<<"a", ICS>>, bytes)

NextView ==
    \/ \E bytes \in ViewFeedPool : UploadView(bytes)
    \/ RefreshMerge
    \/ \E filename \in UploadNames : DeleteFile(filename)
    \/ PrevWeek
    \/ NextWeek

SpecView == InitView /\ [][NextView]_vars

\* Feeds with their own top-level properties under three names
\* the bytes in OUTPUT_FILE after open(OUTPUT_FILE, 'wb') has emptied it
\* and the first n events of to_ical() have reached the file: without the
\* closing END:VCALENDAR they are not well-formed
partial_bytes(cal, n) ==
    IF n = 0 THEN Feed(TRUE, <<>>, <<>>)
    ELSE Feed(TRUE, cal.props, SubSeq(cal.events, 1, n))

\* lines 752-756 and 114-155: the uploaded file is written, the calendars
\* are merged in memory and OUTPUT_FILE is opened for writing
StartUpload(name, bytes) ==
    /\ ~output_write.open
    /\ LET written == write_file(files, name, bytes)
       IN  \E listing \in Listings(written) :
             /\ merge_all_ics_files(written, listing).success
             /\ files' = write_file(written, OUTPUT_FILE,
                    partial_bytes(merge_all_ics_files(written, listing).cal, 0))
             /\ output_write' = [open |-> TRUE, listing |-> listing,
                                 written |-> 0, before |-> stat(files)]
    /\ UNCHANGED <<merge_call, view_status, events, day_buckets,
                   calendar_week_start, today, tzlocal_ok, reader_seen,
                   source_colors>>
    /\ UNCHANGED ledger_vars

\* line 156: f.write hands the next part of the bytes to the file
WriteChunk ==
    /\ output_write.open
    /\ LET cal == merge_all_ics_files(files, output_write.listing).cal
       IN  /\ output_write.written < Len(cal.events)
           /\ files' = write_file(files, OUTPUT_FILE,
                          partial_bytes(cal, output_write.written + 1))
           /\ output_write' = [output_write EXCEPT !.written = @ + 1]
    /\ UNCHANGED <<merge_call, view_status, events, day_buckets,
                   calendar_week_start, today, tzlocal_ok, reader_seen,
                   source_colors>>
    /\ UNCHANGED ledger_vars

\* lines 155-158 and 757-761: the with block ends, the file is complete,
\* the handler returns and the page is rendered
CloseOutput ==
    /\ output_write.open
    /\ LET r == merge_all_ics_files(files, output_write.listing)
       IN  /\ output_write.written = Len(r.cal.events)
           /\ Finish(rerun(r, output_write.listing), calendar_week_start)

\* lines 804-807 in a second session: the merged output is read
ReadOutput ==
    /\ reader_seen' =
          [read   |-> TRUE,
           seen   |-> stat(files),
           before |-> IF output_write.open THEN output_write.before
                      ELSE stat(files),
           after  |-> IF output_write.open
                      THEN [present |-> TRUE,
                            bytes |-> to_ical(merge_all_ics_files(
                                        files, output_write.listing).cal)]
                      ELSE stat(files)]
    /\ UNCHANGED <<files, merge_call, view_status, events, day_buckets,
                   calendar_week_start, today, tzlocal_ok, output_write,
                   source_colors>>
    /\ UNCHANGED ledger_vars

DeleteShared(filename) == ~output_write.open /\ DeleteFile(filename)

SharedNames == { <<"a", ICS>>, <<"b", ICS>> }
SharedFeedPool ==
    {Feed(FALSE, <<"p1">>, v) : v \in {<<EvPlain>>, <<EvPlain, EvNoEnd>>}}

\* Two sessions on the same calendar directory: one uploads and merges,
\* the other renders the merged output
NextShared ==
    \/ \E name \in SharedNames, bytes \in SharedFeedPool :
          StartUpload(name, bytes)
    \/ WriteChunk
    \/ CloseOutput
    \/ ReadOutput
    \/ \E filename \in SharedNames : DeleteShared(filename)

SpecShared == Init /\ [][NextShared]_vars

NextHead ==
    \/ \E name \in HeadNames, bytes \in HeadFeedPool : Upload(name, bytes)
    \/ RefreshMerge
    \/ \E filename \in HeadNames : DeleteFile(filename)

SpecHead == Init /\ [][NextHead]_vars

----------------------------------------------------------------------------
(* get_source_color.  A label is a sequence of characters; a colour      *)
(* "#rrggbb" is the number rrggbb, 24 bits.                              *)

\* the characters of the labels, the lower-case letters first, each
\* upper-case letter as far behind its lower-case letter as the others
ALPHABET ==
    <<"a", "e", "g", "i", "l", "m", "p", "A", "E", "G", "I", "L", "M", "P">>

ord(c) == CHOOSE i \in DOMAIN ALPHABET : ALPHABET[i] = c

\* str.lower()
lower(source) ==
    [k \in DOMAIN source |->
        IF ord(source[k]) > Len(ALPHABET) \div 2
        THEN ALPHABET[ord(source[k]) - Len(ALPHABET) \div 2]
        ELSE source[k]]

\* color_map.items(), in the order of the dict literal
color_map ==
    << [key |-> <<"g", "m", "a", "i", "l">>,           color |-> 15352629],
       [key |-> <<"g", "o", "o", "g", "l", "e">>,      color |-> 15352629],
       [key |-> <<"s", "a", "m", "s", "u", "n", "g">>, color |-> 1321120],
       [key |-> <<"o", "u", "t", "l", "o", "o", "k">>, color |-> 30932],
       [key |-> <<"a", "p", "p", "l", "e">>,           color |-> 5592405],
       [key |-> <<"i", "c", "l", "o", "u", "d">>,      color |-> 5592405] >>

\* key in text
contains(key, text) ==
    \E i \in 1..(Len(text) - Len(key) + 1) :
        SubSeq(text, i, i + Len(key) - 1) = key

\* the first 6 hex digits of hashlib.md5(source.encode()).hexdigest(): 24
\* bits that are a function of the exact characters of the label
RECURSIVE md5_hex6(_)
md5_hex6(source) ==
    IF source = <<>> THEN 13901196
    ELSE (md5_hex6(SubSeq(source, 1, Len(source) - 1)) * 31
            + ord(source[Len(source)])) % (2 ^ 24)

\* get_source_color with the keys looked up in the label as it is written
get_source_color_exact(source) ==
    LET hits == {i \in DOMAIN color_map : contains(color_map[i].key, source)}
    IN  IF hits # {}
        THEN color_map[CHOOSE i \in hits : \A j \in hits : i <= j].color
        ELSE md5_hex6(source)

get_source_color(source) ==
    LET source_lower == lower(source)
        hits == {i \in DOMAIN color_map :
                    contains(color_map[i].key, source_lower)}
    IN  IF hits # {}
        THEN color_map[CHOOSE i \in hits : \A j \in hits : i <= j].color
        ELSE md5_hex6(source)

\* labels with and without a known keyword, in both letter cases
SourcePool ==
    { <<"g", "m", "a", "i", "l">>, <<"G", "M", "A", "I", "L">>,
      <<"m", "a", "i", "l">>, <<"M", "A", "I", "L">>,
      <<"a", "p", "p", "l", "e", "g", "m", "a", "i", "l">>,
      <<"A", "P", "P", "L", "E", "g", "m", "a", "i", "l">>,
      <<>> }

\* lines 868-871: the card of an event of the source is rendered
RenderCard(source) ==
    /\ source \in DOMAIN source_colors => Len(source_colors[source]) < MaxCalls
    /\ source_colors' =
          [x \in (DOMAIN source_colors) \cup {source} |->
              IF x = source
              THEN (IF source \in DOMAIN source_colors
                    THEN source_colors[source] ELSE <<>>)
                       \o <<get_source_color(source)>>
              ELSE source_colors[x]]
    /\ UNCHANGED <<calendar_vars, today, tzlocal_ok>>
    /\ UNCHANGED ledger_vars

NextStyle == \E source \in SourcePool : RenderCard(source)

SpecStyle == Init /\ [][NextStyle]_vars

----------------------------------------------------------------------------
(* The ledger: modules and weekly hour entries.  Hours are counted in     *)
(* steps of the number inputs, half an hour each.                         *)

\* the weekly limit of 37.5 hours
WEEKLY_LIMIT == 75
\* max_value=200.0 of the hours input of the claim page
MAX_HOURS_INPUT == 400

\* values of the hours input: nothing, one step, the limit, the maximum
HoursPool == {0, 1, WEEKLY_LIMIT, MAX_HOURS_INPUT}

ModuleNames == {"m"}
ModuleHoursPool == {2}

module_ids(ms) == {ms[k].id : k \in DOMAIN ms}

\* the index of the first entry of (week, module_id), 0 for None
entry_idx(es, week, module_id) ==
    LET hits == {i \in DOMAIN es :
                    es[i].week = week /\ es[i].module_id = module_id}
    IN  IF hits = {} THEN 0
        ELSE CHOOSE i \in hits : \A j \in hits : i <= j

\* es.pop(idx)
pop(es, idx) == SubSeq(es, 1, idx - 1) \o SubSeq(es, idx + 1, Len(es))

get_entry_hours(es, week, module_id) ==
    IF entry_idx(es, week, module_id) = 0 THEN 0
    ELSE es[entry_idx(es, week, module_id)].hours

\* sum(e['hours'] for e in entries if e['week'] == week_num)
RECURSIVE calculate_week_total(_, _)
calculate_week_total(es, week_num) ==
    IF es = <<>> THEN 0
    ELSE (IF es[1].week = week_num THEN es[1].hours ELSE 0)
         + calculate_week_total(Tail(es), week_num)

add_module(ms, id, name, hours) ==
    Append(ms, [id |-> id, name |-> name, total_hours |-> hours])

\* delete_module that leaves the entries of the module in the list
delete_module_keep_entries(ms, es, module_id) ==
    LET Other(m) == m.id # module_id
    IN  [modules |-> SelectSeq(ms, Other), entries |-> es]

delete_module(ms, es, module_id) ==
    LET Other(m) == m.id # module_id
        OfOther(e) == e.module_id # module_id
    IN  [modules |-> SelectSeq(ms, Other), entries |-> SelectSeq(es, OfOther)]

update_module(ms, module_id, name, hours) ==
    [k \in DOMAIN ms |->
        IF ms[k].id = module_id
        THEN [ms[k] EXCEPT !.name = name, !.total_hours = hours]
        ELSE ms[k]]

add_or_update_entry(es, week, module_id, hours) ==
    LET idx == entry_idx(es, week, module_id)
    IN  IF hours = 0
        THEN (IF idx # 0 THEN pop(es, idx) ELSE es)
        ELSE IF idx # 0
             THEN [es EXCEPT ![idx].hours = hours]
             ELSE Append(es, [week |-> week, module_id |-> module_id,
                              hours |-> hours])

LedgerStep(op, week, module_id, hours) ==
    /\ ledger_call' = [op |-> op, week |-> week, module_id |-> module_id,
                       hours |-> hours]
    /\ UNCHANGED <<calendar_vars, today, tzlocal_ok, source_colors>>

\* lines 394-398: "Add Module" with a name and hours > 0
AddModule(name, hours) ==
    /\ next_id <= MaxModules
    /\ name # "" /\ hours > 0
    /\ modules' = add_module(modules, next_id, name, hours)
    /\ next_id' = next_id + 1
    /\ UNCHANGED <<entries, selected_week>>
    /\ LedgerStep("add", 0, next_id, 0)

\* lines 430-432: the delete button of a listed module
DeleteModule(module_id) ==
    /\ module_id \in module_ids(modules)
    /\ modules' = delete_module(modules, entries, module_id).modules
    /\ entries' = delete_module(modules, entries, module_id).entries
    /\ UNCHANGED <<next_id, selected_week>>
    /\ LedgerStep("delete", 0, module_id, 0)

\* lines 435-445: the edit form of a listed module, saved
UpdateModule(module_id, name, hours) ==
    /\ module_id \in module_ids(modules)
    /\ modules' = update_module(modules, module_id, name, hours)
    /\ UNCHANGED <<entries, next_id, selected_week>>
    /\ LedgerStep("update", 0, module_id, 0)

\* lines 468-470: "Previous"
ClaimPrevious ==
    /\ selected_week' = IF selected_week - 1 > 1 THEN selected_week - 1 ELSE 1
    /\ UNCHANGED <<modules, entries, next_id>>
    /\ LedgerStep("previous", selected_week', 0, 0)

\* lines 479-481: "Next"
ClaimNext ==
    /\ selected_week < MaxWeek
    /\ selected_week' = selected_week + 1
    /\ UNCHANGED <<modules, entries, next_id>>
    /\ LedgerStep("next", selected_week', 0, 0)

\* lines 484-486: "Today"
ClaimToday ==
    /\ selected_week' = get_week_number(today)
    /\ UNCHANGED <<modules, entries, next_id>>
    /\ LedgerStep("today", selected_week', 0, 0)

\* lines 521-534: the hours input of a listed module is changed
ClaimHours(module_id, hours) ==
    /\ module_id \in module_ids(modules)
    /\ hours >= 0 /\ hours <= MAX_HOURS_INPUT
    /\ hours # get_entry_hours(entries, selected_week, module_id)
    /\ Len(add_or_update_entry(entries, selected_week, module_id, hours))
          <= MaxEntries
    /\ entries' = add_or_update_entry(entries, selected_week, module_id, hours)
    /\ UNCHANGED <<modules, next_id, selected_week>>
    /\ LedgerStep("entry", selected_week, module_id, hours)

NextLedger ==
    \/ \E name \in ModuleNames, hours \in ModuleHoursPool :
          AddModule(name, hours)
    \/ \E module_id \in 1..MaxModules : DeleteModule(module_id)
    \/ \E module_id \in 1..MaxModules, name \in ModuleNames,
          hours \in ModuleHoursPool : UpdateModule(module_id, name, hours)
    \/ ClaimPrevious
    \/ ClaimNext
    \/ ClaimToday
    \/ \E module_id \in 1..MaxModules, hours \in HoursPool :
          ClaimHours(module_id, hours)

\* the session starts in the first week of the year
TodayPoolLedger == {1}
InitLedger == InitOver(TodayPoolLedger)

SpecLedger == InitLedger /\ [][NextLedger]_vars

----------------------------------------------------------------------------
(* Properties *)

\* the bytes of the source file of a merge call are well-formed
WellFormed(f) == ~files[f].junk

\* the events of source file f as they are expected in the merged calendar
Expected(f) ==
    IF WellFormed(f)
    THEN [k \in 1..Len(files[f].vevents) |->
            [dtstart |-> files[f].vevents[k].dtstart,
             dtend   |-> files[f].vevents[k].dtend,
             summary |-> files[f].vevents[k].summary,
             xsource |-> files[f].vevents[k].xsource
                            \o <<source_name_of(f)>>]]
    ELSE <<>>

\* the expected events of the source files order[1..n], one after the other
RECURSIVE ExpectedUpTo(_, _)
ExpectedUpTo(order, n) ==
    IF n = 0 THEN <<>>
    ELSE ExpectedUpTo(order, n - 1) \o Expected(order[n])

RECURSIVE SumLen(_, _)
SumLen(order, n) ==
    IF n = 0 THEN 0
    ELSE SumLen(order, n - 1)
         + (IF WellFormed(order[n]) THEN Len(files[order[n]].vevents) ELSE 0)

\* the events of the merged output whose last tag is the label of f
TaggedWith(f) ==
    LET FromF(c) == c.xsource # <<>>
                    /\ c.xsource[Len(c.xsource)] = source_name_of(f)
    IN  SelectSeq(output_events(files), FromF)

\* C1: a merge that finds no source file returns success = False with the
\* message "No .ics files found" and leaves the directory, the previously
\* merged output included, exactly as it was.
C1_NoSourceNoWrite ==
    (merge_call.called /\ merge_call.ics_files = <<>>) =>
        /\ ~merge_call.success
        /\ merge_call.message = MsgNoFiles
        /\ merge_call.untouched

\* a merge was called with no source while a merged output with events
\* was in the directory
C1_Witness ==
    /\ merge_call.called
    /\ merge_call.ics_files = <<>>
    /\ exists(files, OUTPUT_FILE)
    /\ files[OUTPUT_FILE].vevents # <<>>

\* C2: when some source feeds are malformed and at least one is
\* well-formed, the merge succeeds, reports each malformed feed, and the
\* merged output holds, for every well-formed feed, all its events and, for
\* every malformed feed, none, wherever the malformed feeds are in the order.
C2_MalformedSkipped ==
    LET order == merge_call.ics_files
    IN  (/\ merge_call.called
         /\ \E i \in DOMAIN order : ~WellFormed(order[i])
         /\ \E i \in DOMAIN order : WellFormed(order[i]))
        =>
        /\ merge_call.success
        /\ \A i \in DOMAIN order :
              /\ TaggedWith(order[i]) = Expected(order[i])
              /\ ~WellFormed(order[i]) <=>
                    (\E k \in DOMAIN merge_call.warned :
                        merge_call.warned[k] = order[i])

\* a malformed feed that holds events was processed before a well-formed one
C2_Witness ==
    LET order == merge_call.ics_files
    IN  /\ merge_call.called
        /\ Len(order) = 2
        /\ ~WellFormed(order[1]) /\ files[order[1]].vevents # <<>>
        /\ WellFormed(order[2]) /\ files[order[2]].vevents # <<>>

\* C3: after a successful merge the merged event list, returned and written,
\* is the concatenation, in processing order and in each feed's own order,
\* of the events of the parsed sources, each tagged with the label of its
\* source; identical events are all kept, so the number of merged events is
\* the sum of the event counts of the parsed sources.
C3_Concatenation ==
    LET order == merge_call.ics_files
    IN  (merge_call.called /\ merge_call.success) =>
            /\ merge_call.cal.events = ExpectedUpTo(order, Len(order))
            /\ output_events(files) = merge_call.cal.events
            /\ Len(output_events(files)) = SumLen(order, Len(order))

\* two parsed sources hold the same event and one of them holds two
\* different events
C3_Witness ==
    LET order == merge_call.ics_files
    IN  /\ merge_call.called /\ merge_call.success
        /\ Len(order) = 2
        /\ WellFormed(order[1]) /\ WellFormed(order[2])
        /\ files[order[1]].vevents = <<EvNoEnd, EvPlain>>
        /\ files[order[2]].vevents = <<EvPlain>>

\* C5: a merge of the same unchanged source files that were merged by the
\* handler before yields a merged output with the same events (same tags,
\* same fields) the same number of times.
C5_Idempotent ==
    (merge_call.called /\ merge_call.remerge) => merge_call.same_events

\* two source files with events were merged a second time
C5_Witness ==
    /\ merge_call.called /\ merge_call.remerge
    /\ Len(merge_call.ics_files) = 2
    /\ Len(output_events(files)) >= 2

\* the one source file of the last merge is itself the serialization of a
\* merged calendar: every event carries the label of the feed it came from
SoleSourceIsMerged ==
    LET order == merge_call.ics_files
    IN  /\ merge_call.called /\ merge_call.success
        /\ Len(order) = 1
        /\ WellFormed(order[1])
        /\ files[order[1]].vevents # <<>>
        /\ \A k \in DOMAIN files[order[1]].vevents :
              Len(files[order[1]].vevents[k].xsource) = 1

\* C4: when a serialized merge is merged again as the only source, the
\* events extracted from the second merge equal those of the first, source
\* tag included.
C4_RoundTrip ==
    LET first == extract_events(from_ical(files[merge_call.ics_files[1]]).cal,
                                tzlocal_ok, local_tz(today))
    IN  (SoleSourceIsMerged /\ ~first.raised) => events = first.events

\* C6: in every day bucket of the weekly view every all-day event comes
\* before every timed event and the timed events are in non-decreasing order
\* of their start time of day.
C6_BucketOrder ==
    view_status = "ok" =>
        \A i \in 0..6 :
            \A j, k \in DOMAIN day_buckets[i] :
                j < k =>
                    /\ day_buckets[i][k].is_allday => day_buckets[i][j].is_allday
                    /\ (~day_buckets[i][j].is_allday /\ ~day_buckets[i][k].is_allday)
                        => day_buckets[i][j].start.hour <= day_buckets[i][k].start.hour

\* a bucket holds an all-day event and a timed event in another order
\* than the extracted events had
C6_Witness ==
    /\ view_status = "ok"
    /\ \E i \in 0..6 :
          LET OnDay(e) == e.start.day = calendar_week_start + i
          IN  /\ day_buckets[i] # SelectSeq(events, OnDay)
              /\ \E j \in DOMAIN day_buckets[i] : day_buckets[i][j].is_allday
              /\ \E j \in DOMAIN day_buckets[i] : ~day_buckets[i][j].is_allday

\* C7: the bucket of offset day k holds exactly the extracted events whose
\* effective date (the date of the normalized start) is week_start + k, as
\* often as they were extracted, and nothing else; so an event is in at
\* most one bucket and an event outside the seven days is in none.
C7_BucketContent ==
    view_status = "ok" =>
        \A k \in 0..6 :
            /\ \A n \in DOMAIN events :
                  Count(day_buckets[k], events[n]) =
                      IF events[n].start.day = calendar_week_start + k
                      THEN Count(events, events[n]) ELSE 0
            /\ \A j \in DOMAIN day_buckets[k] :
                  Count(events, day_buckets[k][j]) > 0

\* the view holds an event in a bucket after the first, shown on another
\* date than its feed gave, and an event outside the week
C7_Witness ==
    /\ view_status = "ok"
    /\ \E k \in 1..6 : \E j \in DOMAIN day_buckets[k] :
          \E c \in DOMAIN output_events(files) :
             /\ output_events(files)[c].dtstart # <<>>
             /\ output_events(files)[c].summary = <<day_buckets[k][j].summary>>
             /\ output_events(files)[c].dtstart[1].day # day_buckets[k][j].start.day
    /\ \E n \in DOMAIN events :
          \/ events[n].start.day < calendar_week_start
          \/ events[n].start.day > calendar_week_start + 6

\* the cursor is a Monday, a whole number of weeks away from the week that
\* holds today
MondayAligned ==
    /\ weekday(calendar_week_start) = 0
    /\ \E n \in (0 - MaxNav)..MaxNav :
          /\ calendar_week_start + 7 * n <= today
          /\ today < calendar_week_start + 7 * n + 7

\* C8: the week cursor starts on the Monday of the week that holds today,
\* is a Monday in every state, and every step leaves it as it is or moves it
\* by exactly 7 days back or forward.
C8_MondayAligned ==
    /\ (calendar_week_start <= today /\ today < calendar_week_start + 7)
    /\ []MondayAligned
    /\ [][calendar_week_start' - calendar_week_start \in {0 - 7, 0, 7}]_vars

\* the cursor was moved to another week in a session started on a day that
\* is not a Monday
C8_Witness ==
    /\ weekday(today) # 0
    /\ (today < calendar_week_start \/ today > calendar_week_start + 6)

\* C9 as claimed: no event of the merged output lacks DTSTART or DTEND.
C9_ExcludedFromOutput ==
    (merge_call.called /\ merge_call.success) =>
        \A k \in DOMAIN output_events(files) :
            /\ output_events(files)[k].dtstart # <<>>
            /\ output_events(files)[k].dtend # <<>>

\* C9: an event that lacks DTSTART or DTEND is written to the merged
\* output with the other events of its feed and is left out only of the
\* events extracted from the merged output, which are the complete events
\* in order; a feed is reported as failed only when its bytes are malformed.
C9_DroppedAtExtraction ==
    LET order == merge_call.ics_files
        out == output_events(files)
        Complete(c) == c.dtstart # <<>> /\ c.dtend # <<>>
        kept == SelectSeq(out, Complete)
    IN  (merge_call.called /\ merge_call.success) =>
            /\ out = ExpectedUpTo(order, Len(order))
            /\ \A k \in DOMAIN merge_call.warned :
                  ~WellFormed(merge_call.warned[k])
            /\ view_status \in {"ok", "empty"} =>
                  /\ Len(events) = Len(kept)
                  /\ \A k \in DOMAIN kept :
                        /\ events[k].summary = summary_str(kept[k].summary)
                        /\ events[k].source = source_str(kept[k].xsource)

\* a feed with an event without DTSTART or without DTEND and a complete
\* event was merged without a warning and shown
C9_Witness ==
    /\ merge_call.called /\ merge_call.success
    /\ merge_call.warned = <<>>
    /\ view_status = "ok"
    /\ \E k \in DOMAIN output_events(files) :
          \/ output_events(files)[k].dtend = <<>>
          \/ output_events(files)[k].dtstart = <<>>

\* C10: extract_events returns a list for every calendar that parses: the
\* view fails only when the merged output itself is malformed.
C10_NeverRaises ==
    view_status = "error" => from_ical(files[OUTPUT_FILE]).raised

\* C13: the count a successful merge reports is the number of source files
\* that were merged, the files that failed to parse left out.
C13_CountOfMerged ==
    (merge_call.called /\ merge_call.success) =>
        merge_call.count = Len(merge_call.ics_files) - Len(merge_call.warned)

\* the value extract_events gives for the raw DTSTART or DTEND value raw is
\* as claimed: same wall clock for a value without zone, same instant for a
\* value with zone, unchanged for a date
NormalizedAsClaimed(raw, val) ==
    /\ raw.t = "naive" => (val.day = raw.day /\ val.hour = raw.hour)
    /\ raw.t = "aware" =>
          val.day * 24 + val.hour - val.off = raw.day * 24 + raw.hour - raw.off
    /\ raw.t = "date" => val = raw

\* C16: every extracted start and end has the wall clock of its raw value
\* when that had no zone, denotes the same instant when it had one, and is
\* the raw date when it was a date.
C16_ZoneNormalization ==
    LET kept == SelectSeq(output_events(files), admitted)
    IN  view_status = "ok" =>
            \A k \in DOMAIN kept :
                /\ NormalizedAsClaimed(kept[k].dtstart[1], events[k].start)
                /\ NormalizedAsClaimed(kept[k].dtend[1], events[k].end)

\* the labels of the source files that are in the directory
PresentLabels ==
    {source_name_of(f) : f \in {g \in DOMAIN files : g # OUTPUT_FILE}}

\* C18: once a handler has finished, every event of an existing merged
\* output is tagged with the label of a source file that is in the
\* directory, and without any source file there is no merged output.
C18_OutputFollowsSources ==
    /\ \A k \in DOMAIN output_events(files) :
          /\ output_events(files)[k].xsource # <<>>
          /\ output_events(files)[k].xsource[Len(output_events(files)[k].xsource)]
                \in PresentLabels
    /\ (DOMAIN files) \ {OUTPUT_FILE} = {} => ~exists(files, OUTPUT_FILE)

\* the source files of the merge that parse, in processing order
ParsedFiles == SelectSeq(merge_call.ics_files, WellFormed)

\* C15: the top-level properties of the merged calendar are those of the
\* first source, in processing order, that parses; the sources before it
\* that fail and the sources after it contribute none.
C15_MetadataFromFirstParsed ==
    (merge_call.called /\ merge_call.success) =>
        /\ ParsedFiles = <<>> => merge_call.cal.props = <<>>
        /\ ParsedFiles # <<>> =>
              /\ merge_call.cal.props = files[ParsedFiles[1]].head
              /\ from_ical(files[OUTPUT_FILE]).cal.props
                    = files[ParsedFiles[1]].head

C15_Witness ==
    /\ merge_call.called /\ merge_call.success
    /\ Len(merge_call.ics_files) = 3
    /\ ~WellFormed(merge_call.ics_files[1])
    /\ WellFormed(merge_call.ics_files[2])
    /\ WellFormed(merge_call.ics_files[3])
    /\ files[merge_call.ics_files[2]].head # files[merge_call.ics_files[3]].head
    /\ merge_call.cal.props = files[merge_call.ics_files[2]].head

\* the file name without its last token
Stem(filename) == SubSeq(filename, 1, Len(filename) - 1)

\* C17: the label of a merged feed is its file name without the final
\* ".ics" only, so every merged event carries the stem of a source file as
\* its label and two source files never share a label.
C17_LabelIsStem ==
    (merge_call.called /\ merge_call.success) =>
        /\ \A k \in DOMAIN merge_call.cal.events :
              \E i \in DOMAIN merge_call.ics_files :
                 merge_call.cal.events[k].xsource
                    [Len(merge_call.cal.events[k].xsource)]
                       = Stem(merge_call.ics_files[i])
        /\ \A i, j \in DOMAIN merge_call.ics_files :
              i # j => source_name_of(merge_call.ics_files[i])
                          # source_name_of(merge_call.ics_files[j])

\* C14: the hours logged for any one week never exceed the weekly limit.
C14_WeeklyCap ==
    \A w \in 1..MaxWeek : calculate_week_total(entries, w) <= WEEKLY_LIMIT

\* at most one entry per (week, module), no entry of 0 hours, every entry
\* of a module of the list
LedgerOk ==
    /\ \A i, j \in DOMAIN entries :
          (entries[i].week = entries[j].week
              /\ entries[i].module_id = entries[j].module_id) => i = j
    /\ \A i \in DOMAIN entries : entries[i].hours # 0
    /\ \A i \in DOMAIN entries : entries[i].module_id \in module_ids(modules)

\* setting the hours of (week, module) to 0 removes its entry and leaves
\* the other entries as they were; deleting a module leaves no entry of it
LedgerStepOk ==
    LET NotCalled(e) == ~(e.week = ledger_call'.week
                            /\ e.module_id = ledger_call'.module_id)
    IN  /\ (ledger_call'.op = "entry" /\ ledger_call'.hours = 0) =>
              entries' = SelectSeq(entries, NotCalled)
        /\ ledger_call'.op = "delete" =>
              /\ ledger_call'.module_id \notin module_ids(modules')
              /\ \A i \in DOMAIN entries' :
                    entries'[i].module_id # ledger_call'.module_id

\* C19: from the empty ledger on, the entries hold at most one entry per
\* (week, module), none of 0 hours and none of a deleted module; setting
\* hours to 0 removes that entry only.
C19_LedgerInvariant ==
    /\ entries = <<>> /\ modules = <<>>
    /\ []LedgerOk
    /\ [][LedgerStepOk]_vars

C19_Witness ==
    /\ ledger_call.op = "entry" /\ ledger_call.hours = 0
    /\ Len(entries) = 1
    /\ Len(modules) = 1
    /\ next_id > 2

\* a label in which a known provider keyword is found, whatever its case
HasKeyword(source) ==
    \E i \in DOMAIN color_map : contains(color_map[i].key, lower(source))

\* C11: every call of get_source_color returns a colour; the calls with
\* the same label return the same colour, and so do the calls with labels
\* that hold a known keyword and differ in letter case only.
C11_ColorByLabel ==
    \A s \in DOMAIN source_colors :
        /\ \A k \in DOMAIN source_colors[s] :
              /\ source_colors[s][k] \in 0..(2 ^ 24 - 1)
              /\ source_colors[s][k] = source_colors[s][1]
        /\ \A t \in DOMAIN source_colors :
              (HasKeyword(s) /\ lower(s) = lower(t)) =>
                  source_colors[s][1] = source_colors[t][1]

C11_Witness ==
    /\ <<"G", "M", "A", "I", "L">> \in DOMAIN source_colors
    /\ <<"g", "m", "a", "i", "l">> \in DOMAIN source_colors
    /\ Len(source_colors[<<"g", "m", "a", "i", "l">>]) = 2
    /\ <<"M", "A", "I", "L">> \in DOMAIN source_colors
    /\ <<"m", "a", "i", "l">> \in DOMAIN source_colors
    /\ source_colors[<<"M", "A", "I", "L">>] # source_colors[<<"m", "a", "i", "l">>]

\* C12: whenever the merged output is read, what is read is no file at
\* all, the whole aggregate of the merge before or the whole aggregate of
\* the merge that is running.
C12_NoPartialRead ==
    reader_seen.read =>
        \/ ~reader_seen.seen.present
        \/ reader_seen.seen = reader_seen.before
        \/ reader_seen.seen = reader_seen.after

====
